---- MODULE Spec2Model ----
(***************************************************************************)
(* Model of the feed list store of feed-reader (feedlist/feed_list.go) and *)
(* of apiMiddleware and apiHandler, which every request to its HTTP API    *)
(* passes through (package app).                                           *)
(*                                                                         *)
(* A Go string is modelled as a sequence of units.  A unit is either a     *)
(* chunk of valid UTF-8 text, the replacement character U+FFFD, or a       *)
(* single byte that can occur in no valid UTF-8 encoding (0xFF, 0xFE).     *)
(* The strings used below are chosen so that two different sequences of    *)
(* units never denote the same bytes.                                      *)
(*                                                                         *)
(* The bolt database is modelled by the existence of the bucket `feedlist` *)
(* and the value stored under its key `all`.  A value is a record          *)
(* [kind, feeds]: kind "nil" is the absent key, "empty" a value of zero    *)
(* bytes, "null" the JSON literal null, "json" a JSON array of Feed        *)
(* objects (feeds holds the decoded objects), "garbage" any other bytes.   *)
(*                                                                         *)
(* A transaction of bolt is one atomic step.  listStored keeps the slice   *)
(* bucket.Get returned and decodes it after db.View has returned           *)
(* (feed_list.go:124-137).  bolt keeps such a slice valid only for the     *)
(* life of the transaction: it points into the memory-mapped page of the   *)
(* value, which a later write transaction frees and the one after it may   *)
(* write into.  Every call that reads is therefore taken in two steps, its *)
(* read transaction and the decoding of the slice, and the bytes decoded   *)
(* are a choice between what the transaction saw and anything else once    *)
(* the page can have been reused.  Spec interleaves the steps of two       *)
(* callers, SpecEnv those of one caller and of other writers of the        *)
(* database; in SpecSeq one call runs at a time and nothing is committed   *)
(* inside it.                                                              *)
(*                                                                         *)
(* A request to the API passes through apiMiddleware and, if that lets it  *)
(* through, apiHandler, which reads the body and calls the handler of the  *)
(* route.  Each request runs on its own goroutine and is a caller of the   *)
(* store: its handler's transactions interleave with those of the other    *)
(* requests (SpecHTTP).                                                    *)
(***************************************************************************)
EXTENDS Naturals, Sequences, FiniteSets, TLC

VARIABLES
    bucket,         \* whether the bucket `feedlist` exists in the database
    raw,            \* the value stored under the key `all` of the bucket
    pc,             \* per caller: "idle", "decode" after db.View, "update" before Add's write
    arg,            \* per caller: the candidate passed to Add, the ID passed to GetByID
    fresh,          \* per caller: the identifier uuid.NewString gave this call
    feed,           \* per caller: Add's local `feed` (the candidate with its new ID)
    existingFeeds,  \* per caller: Add's local `existingFeeds`
    rawFeed,        \* per caller: Add's local `rawFeed`
    rawRead,        \* per caller: the bytes Add's listStored decoded
    nextId,         \* how many identifiers uuid.NewString has generated, plus one
    outside,        \* how many times an outside writer has changed the database
    intervening,    \* per caller: feeds others wrote since this caller's read
    inserted,       \* the feeds appended, in order (sequential runs only)
    last,           \* the most recently completed call and what it returned
    prev,           \* the call completed before it (sequential runs only)
    defaultFeeds,   \* the feeds seen through the package variable defaultFeedsList
    view,           \* per caller: the call, and what its db.View saw of the database
    reg,            \* the ids Add has returned, those replaced, those asked for (Spec only)
    http,           \* per goroutine: how far its request has come, and the response (SpecHTTP only)
    served          \* how many requests have arrived (SpecHTTP only)

vars == <<bucket, raw, pc, arg, fresh, feed, existingFeeds, rawFeed, rawRead,
          nextId, outside, intervening, inserted, last, prev, defaultFeeds, view,
          reg, http, served>>

\* Number of identifiers the generator hands out, i.e. of Add calls.
MaxIds == 2

\* Number of changes outside writers make to the database.
MaxOutside == 1

\* Number of requests that arrive.
MaxRequests == 3

\* The concurrent callers of the store.
Procs == {"p1", "p2"}

-----------------------------------------------------------------------------
(* Strings and feeds *)

ReplacementChar == "U+FFFD"

InvalidBytes == {"0xFF", "0xFE"}

Str(s) == <<s>>

NoStr == <<>>

MkFeed(id, title, description, url, imageURL, category) ==
    [ID |-> id, Title |-> title, Description |-> description,
     URL |-> url, ImageURL |-> imageURL, Category |-> category]

\* The zero value Feed{}.
ZeroFeed == MkFeed(NoStr, NoStr, NoStr, NoStr, NoStr, NoStr)

defaultFeedsList ==
    << MkFeed(Str("b1031651-411c-40bb-b269-d247794dfd59"),
              Str("BBC News - UK"),
              Str("BBC News - UK"),
              Str("http://feeds.bbci.co.uk/news/uk/rss.xml"),
              Str("https://news.bbcimg.co.uk/nol/shared/img/bbc_news_120x60.gif"),
              NoStr),
       MkFeed(Str("c2970c84-37c8-4ec1-8861-4b5a91ebff0d"),
              Str("BBC News - Technology"),
              Str("BBC News - Technology"),
              Str("http://feeds.bbci.co.uk/news/technology/rss.xml"),
              Str("https://news.bbcimg.co.uk/nol/shared/img/bbc_news_120x60.gif"),
              NoStr),
       MkFeed(Str("28059396-5113-46ed-b76b-6d482a3bbcf3"),
              Str("UK News - The latest headlines from the UK | Sky News"),
              Str("Expert comment and analysis on the latest UK news, with headlines from England, Scotland, Northern Ireland and Wales."),
              Str("http://feeds.skynews.com/feeds/rss/uk.xml"),
              Str("http://feeds.skynews.com/images/web/logo/skynews_rss.png"),
              Str("Sky News")),
       MkFeed(Str("a2370e4f-0e7f-4844-83cb-b54c02b0bf1f"),
              Str("Tech News - Latest Technology and Gadget News | Sky News"),
              Str("Sky News technology provides you with all the latest tech and gadget news, game reviews, Internet and web news across the globe. Visit us today."),
              Str("http://feeds.skynews.com/feeds/rss/technology.xml"),
              Str("http://feeds.skynews.com/images/web/logo/skynews_rss.png"),
              Str("Sky News")) >>

\* The errors of the package, and the error of a failed write transaction.
NoError == "nil"
ErrorInitializingDB == "Error Initializing DB"
ErrorUnconfiguredBucket == "Error Unconfigured Bucket"
ErrorStoreFeedListCorrupted == "Corrupted stored field list"
ErrorFeedNotFound == "Feed does not exist"
ErrorWrite == "bolt: write failed"

\* uuid.NewString(): the n-th identifier generated; never repeats.
NewString(n) == Str("uuid-" \o ToString(n))

-----------------------------------------------------------------------------
(* encoding/json as the store uses it *)

\* A string as json.Marshal writes it and json.Unmarshal reads it back:
\* every byte that is not part of a valid UTF-8 encoding becomes U+FFFD.
ToValidUTF8(s) ==
    [i \in DOMAIN s |-> IF s[i] \in InvalidBytes THEN ReplacementChar ELSE s[i]]

ToValidUTF8Feed(f) ==
    MkFeed(ToValidUTF8(f.ID), ToValidUTF8(f.Title), ToValidUTF8(f.Description),
           ToValidUTF8(f.URL), ToValidUTF8(f.ImageURL), ToValidUTF8(f.Category))

NilValue == [kind |-> "nil", feeds |-> <<>>]
EmptyValue == [kind |-> "empty", feeds |-> <<>>]
NullValue == [kind |-> "null", feeds |-> <<>>]
GarbageValue == [kind |-> "garbage", feeds |-> <<>>]

\* Marshal writing the strings' bytes as they are.
Marshal_RawBytes(list) == [kind |-> "json", feeds |-> list]

\* json.Marshal of a []Feed (never fails for this type).
Marshal(list) ==
    [kind |-> "json", feeds |-> [i \in DOMAIN list |-> ToValidUTF8Feed(list[i])]]

\* json.Unmarshal of a value into a []Feed: the decoded slice, whether the
\* slice is nil, and whether decoding failed.
Unmarshal(b) ==
    CASE b.kind = "json" -> [feeds |-> b.feeds, isNil |-> FALSE, failed |-> FALSE]
      [] b.kind = "null" -> [feeds |-> <<>>, isNil |-> TRUE, failed |-> FALSE]
      [] OTHER -> [feeds |-> <<>>, isNil |-> FALSE, failed |-> TRUE]

\* IsZeroLen without the test: every value goes on to json.Unmarshal.
IsZeroLen_Never(b) == FALSE

\* len(rawFeedList) == 0: the key is absent or holds zero bytes.
IsZeroLen(b) == b.kind \in {"nil", "empty"}

-----------------------------------------------------------------------------
(* The store's operations as functions of the database *)

\* listStored taking a value it cannot decode for an empty list.
listStored_IgnoringCorruption(bk, b) ==
    IF ~bk
    THEN [feeds |-> <<>>, isNil |-> FALSE, err |-> ErrorUnconfiguredBucket]
    ELSE [feeds |-> Unmarshal(b).feeds, isNil |-> Unmarshal(b).isNil,
          err |-> NoError]

\* listStored taking a missing bucket for an empty one.
listStored_IgnoringBucket(bk, b) ==
    IF IsZeroLen(b)
    THEN [feeds |-> <<>>, isNil |-> FALSE, err |-> NoError]
    ELSE IF Unmarshal(b).failed
    THEN [feeds |-> <<>>, isNil |-> FALSE, err |-> ErrorStoreFeedListCorrupted]
    ELSE [feeds |-> Unmarshal(b).feeds, isNil |-> Unmarshal(b).isNil,
          err |-> NoError]

\* listStored: the stored feeds, whether the slice is nil, and the error.
listStored(bk, b) ==
    IF ~bk
    THEN [feeds |-> <<>>, isNil |-> FALSE, err |-> ErrorUnconfiguredBucket]
    ELSE IF IsZeroLen(b)
    THEN [feeds |-> <<>>, isNil |-> FALSE, err |-> NoError]
    ELSE IF Unmarshal(b).failed
    THEN [feeds |-> <<>>, isNil |-> FALSE, err |-> ErrorStoreFeedListCorrupted]
    ELSE [feeds |-> Unmarshal(b).feeds, isNil |-> Unmarshal(b).isNil,
          err |-> NoError]

\* MergeFeeds with the stored feeds put first.
MergeFeeds_StoredFirst(defaults, stored) == stored \o defaults

\* append(defaultFeedsList, storedFeedList...)
MergeFeeds(defaults, stored) == defaults \o stored

ListAll(bk, b) ==
    LET s == listStored(bk, b)
    IN  IF s.err # NoError THEN [feeds |-> <<>>, err |-> s.err]
        ELSE IF s.isNil THEN [feeds |-> defaultFeeds, err |-> NoError]
        ELSE [feeds |-> MergeFeeds(defaultFeeds, s.feeds), err |-> NoError]

\* The append of ListAll with its result assigned to the package variable.
DefaultsAfterMerge_Assigned(d, stored) == d \o stored

\* The package variable after `return append(defaultFeedsList,
\* storedFeedList...)`: the slice literal has no spare capacity, so append
\* copies into a new array, and its result is returned, not assigned.
DefaultsAfterMerge(d, stored) == d

\* The package variable after a call of ListAll.
DefaultsAfterListAll(bk, b) ==
    LET s == listStored(bk, b)
    IN  IF s.err # NoError \/ s.isNil THEN defaultFeeds
        ELSE DefaultsAfterMerge(defaultFeeds, s.feeds)

\* FirstByID scanning the list from its end.
FirstByID_Last(feeds, id) ==
    IF \E i \in DOMAIN feeds : feeds[i].ID = id
    THEN CHOOSE i \in DOMAIN feeds :
            /\ feeds[i].ID = id
            /\ \A j \in (i + 1)..Len(feeds) : feeds[j].ID # id
    ELSE 0

\* The index of the first feed of the list with this ID, 0 when there is none.
FirstByID(feeds, id) ==
    IF \E i \in DOMAIN feeds : feeds[i].ID = id
    THEN CHOOSE i \in DOMAIN feeds :
            /\ feeds[i].ID = id
            /\ \A j \in 1..(i - 1) : feeds[j].ID # id
    ELSE 0

GetByID(bk, b, id) ==
    LET all == ListAll(bk, b)
        i == FirstByID(all.feeds, id)
    IN  IF all.err # NoError THEN [feed |-> ZeroFeed, err |-> all.err]
        ELSE IF i # 0 THEN [feed |-> all.feeds[i], err |-> NoError]
        ELSE [feed |-> ZeroFeed, err |-> ErrorFeedNotFound]

\* The index of the first feed of the list with this URL, 0 when there is none.
FirstByURL(feeds, url) ==
    IF \E i \in DOMAIN feeds : feeds[i].URL = url
    THEN CHOOSE i \in DOMAIN feeds :
            /\ feeds[i].URL = url
            /\ \A j \in 1..(i - 1) : feeds[j].URL # url
    ELSE 0

\* AssignID generating an ID only for a candidate that comes without one.
AssignID_WhenMissing(f, id) == IF f.ID = NoStr THEN [f EXCEPT !.ID = id] ELSE f

\* AssignID keeping the ID the caller supplied.
AssignID_KeepCallerID(f, id) == f

\* feed.ID = uuid.NewString()
AssignID(f, id) == [f EXCEPT !.ID = id]

\* ExistingFeed without the scan of the default feeds.
ExistingFeed_StoredOnly(existing, f) ==
    LET i == FirstByURL(existing, f.URL)
    IN  IF i # 0 THEN [found |-> TRUE, id |-> existing[i].ID]
        ELSE [found |-> FALSE, id |-> NoStr]

\* Add's two scans: the stored feeds first, then the default feeds.
ExistingFeed(existing, f) ==
    LET i == FirstByURL(existing, f.URL)
        j == FirstByURL(defaultFeeds, f.URL)
    IN  IF i # 0 THEN [found |-> TRUE, id |-> existing[i].ID]
        ELSE IF j # 0 THEN [found |-> TRUE, id |-> defaultFeeds[j].ID]
        ELSE [found |-> FALSE, id |-> NoStr]

\* json.Marshal(append(existingFeeds, feed))
MarshalAppended(existing, f) == Marshal(Append(existing, f))

\* bucket.Put(allFeedsBucketKey, rawFeed): the value of the key afterwards.
Put(old, new) == new

-----------------------------------------------------------------------------
(* The HTTP boundary: apiMiddleware and apiHandler (app package) *)

\* The requests served at the same time: each runs on its own goroutine and
\* is the caller of the store's methods its handler calls.
Reqs == Procs

StatusOK == 200
StatusBadRequest == 400
StatusNotFound == 404
StatusUnsupportedMediaType == 415
StatusInternalServerError == 500

\* An error value: its dynamic type and its Error() string.
MkError(type, msg) == [type |-> type, msg |-> msg]

NoHandlerError == MkError("nil", "")

\* err.(HttpError): the error types that carry a status code.
IsHttpError(e) == e.type \in {"NotFoundError", "BadRequestError"}

\* httpErr.StatusCode()
StatusCode(e) ==
    IF e.type = "NotFoundError" THEN StatusNotFound ELSE StatusBadRequest

\* A format verb with a width and no operand, and what fmt writes for it.
FormatVerb == "%2F"
MissingOperand == "%!F(MISSING)"

\* fmt's formatting of a format string that comes with no operands.
Format(format) ==
    [i \in DOMAIN format |->
        IF format[i] = FormatVerb THEN MissingOperand ELSE format[i]]

\* jsonError: fmt.Sprintf("{\"error\": \"%s\"}", err.Error())
jsonError(e) == <<"{\"error\": \"", e.msg, "\"}">>

\* json.Marshal of a string, a Feed and a []Feed, as text.
EncodeString(str) == <<"\"">> \o ToValidUTF8(str) \o <<"\"">>

EncodeFeed(f) ==
    <<"{\"ID\":">> \o EncodeString(f.ID) \o
    <<",\"Title\":">> \o EncodeString(f.Title) \o
    <<",\"Description\":">> \o EncodeString(f.Description) \o
    <<",\"URL\":">> \o EncodeString(f.URL) \o
    <<",\"ImageURL\":">> \o EncodeString(f.ImageURL) \o
    <<",\"Category\":">> \o EncodeString(f.Category) \o <<"}">>

RECURSIVE EncodeFeeds(_)
EncodeFeeds(feeds) ==
    IF feeds = <<>> THEN <<>>
    ELSE EncodeFeed(Head(feeds)) \o
         (IF Tail(feeds) = <<>> THEN <<>> ELSE <<",">>) \o
         EncodeFeeds(Tail(feeds))

\* What a handler returns besides its error: nothing, an id, a Feed, a
\* []Feed, or a value json.Marshal has no encoding for.
MkRsp(kind, id, feeds) == [kind |-> kind, id |-> id, feeds |-> feeds]

NilRsp == MkRsp("nil", NoStr, <<>>)

\* json.Marshal(rsp): the document, and whether it failed.
MarshalRsp(rsp) ==
    CASE rsp.kind = "nil" -> [doc |-> <<"null">>, failed |-> FALSE]
      [] rsp.kind = "id" -> [doc |-> EncodeString(rsp.id), failed |-> FALSE]
      [] rsp.kind = "feed" ->
            [doc |-> EncodeFeed(rsp.feeds[1]), failed |-> FALSE]
      [] rsp.kind = "feeds" ->
            [doc |-> <<"[">> \o EncodeFeeds(rsp.feeds) \o <<"]">>,
             failed |-> FALSE]
      [] OTHER -> [doc |-> <<>>, failed |-> TRUE]

ErrorUnsupportedType == MkError("error", "json: unsupported type")

\* The http.ResponseWriter of a request: whether the status line has gone
\* out and with which status, the Content-Type header, the bodies written,
\* and whether the wrapped handler ran, and ran after a body had been written.
NoResponse ==
    [headerSent |-> FALSE, status |-> 0, contentType |-> "", written |-> <<>>,
     invoked |-> FALSE, invokedAfterWrite |-> FALSE]

\* w.WriteHeader(code): the first call sends the status line, later calls
\* change nothing.
WriteHeader(w, code) ==
    IF w.headerSent THEN w
    ELSE [w EXCEPT !.headerSent = TRUE, !.status = code]

\* w.Write(body): writes the body, which sends the status line with 200 if
\* none has gone out.
Write(w, body) ==
    [WriteHeader(w, StatusOK) EXCEPT !.written = Append(@, body)]

\* fmt.Fprintf(w, format): formats, and writes the result.
Fprintf(w, format) == Write(w, Format(format))

\* handler.Handle(b, params)
Handle(w) ==
    [w EXCEPT !.invoked = TRUE, !.invokedAfterWrite = (w.written # <<>>)]

\* apiHandler from ioutil.ReadAll to its call of handler.Handle: the body
\* read returned readErr.
ReadBody(w, readErr) ==
    Handle(IF readErr # NoHandlerError
           THEN Fprintf(w, jsonError(readErr))
           ELSE w)

\* apiHandler from the return of handler.Handle, with (rsp, err), on.
Respond(w, rsp, err) ==
    IF err # NoHandlerError
    THEN IF IsHttpError(err)
         THEN Fprintf(WriteHeader(w, StatusCode(err)), jsonError(err))
         ELSE Fprintf(WriteHeader(w, StatusInternalServerError),
                      jsonError(err))
    ELSE IF MarshalRsp(rsp).failed
    THEN Fprintf(w, jsonError(ErrorUnsupportedType))
    ELSE Fprintf(w, MarshalRsp(rsp).doc)

\* mime.ParseMediaType(v) of a part of the Content-Type header: the media
\* type, in lower case, without the parameters and the space around it, and
\* whether parsing failed (no media type at all, or no subtype after the
\* slash). A part that is a bare type/subtype in lower case is its own type.
ParseMediaType(v) ==
    CASE v \in {"", "text/"} -> [t |-> "", failed |-> TRUE]
      [] v = " Application/JSON; charset=utf-8" ->
            [t |-> "application/json", failed |-> FALSE]
      [] OTHER -> [t |-> v, failed |-> FALSE]

\* The part of the header at which the loop of apiMiddleware returns, one
\* that does not parse or one of type application/json; 0 when the loop
\* runs to its end.
LoopEnd(parts) ==
    LET ends(i) == \/ ParseMediaType(parts[i]).failed
                   \/ ParseMediaType(parts[i]).t = "application/json"
    IN  IF \E i \in DOMAIN parts : ends(i)
        THEN CHOOSE i \in DOMAIN parts :
                ends(i) /\ \A j \in 1..(i - 1) : ~ends(j)
        ELSE 0

\* The header as it was sent: the inverse of strings.Split(contentType, ",").
RECURSIVE Join(_)
Join(parts) ==
    IF Len(parts) <= 1 THEN parts
    ELSE <<Head(parts), ",">> \o Join(Tail(parts))

\* fmt.Sprintf(`{"error": "Media type (%s) <what>"}`, v)
MediaTypeError(v, what) ==
    <<"{\"error\": \"Media type (">> \o v \o <<") ", what, "\"}">>

\* Whether apiMiddleware calls next.ServeHTTP for a request with this
\* Content-Type header, given as its parts between commas.
Passes(parts) ==
    /\ LoopEnd(parts) # 0
    /\ ~ParseMediaType(parts[LoopEnd(parts)]).failed

\* apiMiddleware as far as its return or its call of next.ServeHTTP: what
\* it has written to the response.
apiMiddleware(w, parts) ==
    LET w0 == [w EXCEPT !.contentType = "application/json;charset=utf8"]
        i == LoopEnd(parts)
    IN  IF i = 0
        THEN Write(WriteHeader(w0, StatusUnsupportedMediaType),
                   MediaTypeError(Join(parts), "not supported"))
        ELSE IF ParseMediaType(parts[i]).failed
        THEN Write(WriteHeader(w0, StatusUnsupportedMediaType),
                   MediaTypeError(<<parts[i]>>, "not parseable"))
        ELSE w0

\* No request on this goroutine yet. A request is then in apiHandler's read
\* of its body ("body"), in handler.Handle ("handle"), or answered ("done").
NoRequest ==
    [phase |-> "none", handler |-> "none", readErr |-> NoHandlerError,
     rsp |-> NilRsp, err |-> NoHandlerError, w |-> NoResponse]

-----------------------------------------------------------------------------
(* Inputs *)

\* The display fields of the candidates: plain text, and text holding bytes
\* that are not valid UTF-8 together with a caller-chosen ID.
PlainCandidate(url) ==
    MkFeed(NoStr, Str("Example"), Str("An example feed"), url, NoStr, NoStr)

BinaryCandidate(url) ==
    MkFeed(defaultFeedsList[1].ID, <<"Caf", "0xFF">>, <<"0xFE">>, url,
           Str("http://example.com/icon.png"), Str("News"))

\* A new URL under both sets of display fields, a default feed's URL, and a
\* URL that is not valid UTF-8.
Candidates ==
    { PlainCandidate(Str("http://example.com/rss")),
      BinaryCandidate(Str("http://example.com/rss")),
      PlainCandidate(defaultFeedsList[1].URL),
      BinaryCandidate(<<"0xFF">>) }

\* The candidates of the concurrent callers: a new URL, and a second new URL
\* under a caller-chosen ID.
RacingCandidates ==
    { PlainCandidate(Str("http://example.com/rss")),
      BinaryCandidate(<<"0xFF">>) }

\* The identifiers looked up: a default one, an unknown one, the generated ones.
LookupIDs ==
    {defaultFeedsList[1].ID, Str("nonexistent")} \cup
    {NewString(n) : n \in 1..(nextId - 1)}

\* A JSON array whose one feed carries the ID of a default feed.
ShadowValue ==
    [kind |-> "json",
     feeds |-> <<MkFeed(defaultFeedsList[1].ID, Str("Shadow"), NoStr,
                        Str("http://example.com/shadow"), NoStr, NoStr)>>]

\* Values an outside writer can leave under the key.
ForeignValues == {EmptyValue, NullValue, GarbageValue, ShadowValue}

\* What ioutil.ReadAll(r.Body) returns as its error.
ReadErrors == {NoHandlerError, MkError("error", "unexpected EOF")}

\* The Content-Type headers of the requests, as their parts between commas:
\* strings.Split gives one empty part for a request without the header.
ContentTypes ==
    { <<"application/json">>,
      <<"text/plain", " Application/JSON; charset=utf-8">>,
      <<"text/plain">>,
      <<"">>,
      <<"text/", "application/json">> }

\* The candidate of the POST requests: its URL holds a percent escape.
PostedCandidates ==
    { PlainCandidate(<<"http://example.com/a", "%2F", "rss">>) }

\* The handlers InitRouter wraps in apiHandler.
Handlers ==
    {"NotFoundHandler", "GETFeedListHandler", "GETFeedHandler",
     "POSTFeedHandler"}

\* NotFoundHandler.Handle: (nil, NotFoundError{"Endpoint not found"}).
NotFoundResult == <<NilRsp, MkError("NotFoundError", "Endpoint not found")>>

\* What Handle returns, (rsp, err), when it returns without a call of the
\* store: NotFoundHandler always, POSTFeedHandler for a body that is not a
\* Feed.
EarlyResults(handler) ==
    CASE handler = "NotFoundHandler" -> {NotFoundResult}
      [] handler = "POSTFeedHandler" ->
           {<<NilRsp, MkError("BadRequestError", "malformed body")>>}
      [] OTHER -> {}

\* The store's error as the handlers pass it on: a feed that does not exist
\* as a not-found error, the others as they are.
HandlerError(err) ==
    IF err = ErrorFeedNotFound THEN MkError("NotFoundError", err)
    ELSE MkError("error", err)

\* The errors of the store that are not of a type with a status code.
StoreErrors ==
    { MkError("error", ErrorUnconfiguredBucket),
      MkError("error", ErrorStoreFeedListCorrupted),
      MkError("error", ErrorInitializingDB),
      MkError("error", ErrorWrite) }

\* What Handle returns, (rsp, err), after the call of the store it made has
\* returned: the store's error, or the feeds of ListAll, the feed of GetByID
\* (or what the handler made of it, which json.Marshal may not encode), the
\* id of Add.
HandlerResults(handler, call) ==
    IF call.err # NoError THEN {<<NilRsp, HandlerError(call.err)>>}
    ELSE CASE handler = "GETFeedListHandler" ->
                {<<MkRsp("feeds", NoStr, call.out), NoHandlerError>>}
           [] handler = "GETFeedHandler" ->
                {<<MkRsp("feed", NoStr, call.out), NoHandlerError>>,
                 <<MkRsp("unsupported", NoStr, <<>>), NoHandlerError>>}
           [] handler = "POSTFeedHandler" ->
                {<<MkRsp("id", call.id, <<>>), NoHandlerError>>}

-----------------------------------------------------------------------------
(* Completed calls *)

NoCall ==
    [op |-> "none", arg |-> ZeroFeed, id |-> NoStr, err |-> NoError,
     out |-> <<>>, wrote |-> FALSE, update |-> FALSE, fresh |-> NoStr, existing |-> <<>>,
     others |-> <<>>, bucketBefore |-> FALSE, rawRead |-> NilValue,
     rawBefore |-> NilValue, rawAfter |-> NilValue, page |-> "live",
     slice |-> NilValue]

\* A call of one transaction that read the database and changed no value.
ReadCall(op, a, id, err, out) ==
    [NoCall EXCEPT !.op = op, !.arg = a, !.id = id, !.err = err, !.out = out,
                   !.bucketBefore = bucket, !.rawRead = raw,
                   !.rawBefore = raw, !.rawAfter = raw, !.slice = raw]

\* This caller holds no slice of the value.
NoView == [op |-> "none", bk |-> FALSE, bytes |-> NilValue, page |-> "live"]

\* No id has been returned by Add, and no GetByID has begun.
NoReg ==
    [acked |-> {}, replaced |-> {}, began |-> [p \in Procs |-> "none"],
     asked |-> "none"]

-----------------------------------------------------------------------------
(* Actions *)

Init ==
    /\ bucket = FALSE
    /\ raw = NilValue
    /\ pc = [p \in Procs |-> "idle"]
    /\ arg = [p \in Procs |-> ZeroFeed]
    /\ fresh = [p \in Procs |-> NoStr]
    /\ feed = [p \in Procs |-> ZeroFeed]
    /\ existingFeeds = [p \in Procs |-> <<>>]
    /\ rawFeed = [p \in Procs |-> NilValue]
    /\ rawRead = [p \in Procs |-> NilValue]
    /\ nextId = 1
    /\ outside = 0
    /\ intervening = [p \in Procs |-> <<>>]
    /\ inserted = <<>>
    /\ last = NoCall
    /\ prev = NoCall
    /\ defaultFeeds = defaultFeedsList
    /\ view = [p \in Procs |-> NoView]
    /\ reg = NoReg
    /\ http = [r \in Reqs |-> NoRequest]
    /\ served = 0

\* A caller's slice after one more write transaction has committed: a write
\* that replaces the value frees the page the slice points into, and any
\* write transaction after that may reuse the page.
Committed(v, replaces) ==
    IF v.page = "live"
    THEN [v EXCEPT !.page = IF replaces THEN "freed" ELSE "live"]
    ELSE [v EXCEPT !.page = "reused"]

\* The callers' slices after one more write transaction: those of the callers
\* that are between the db.View of listStored and its use of rawFeedList.
Views(replaces) ==
    [q \in Procs |->
        IF pc[q] = "decode" THEN Committed(view[q], replaces) ELSE view[q]]

\* What rawFeedList can hold when listStored comes to use it: the bytes the
\* transaction saw or, with the page reused, other bytes of the same length.
SliceBytes(v) ==
    IF v.page = "reused" /\ ~IsZeroLen(v.bytes)
    THEN {v.bytes, GarbageValue}
    ELSE {v.bytes}

\* init creating the bucket anew, whether or not it exists.
NewFeedListStore_Recreate ==
    /\ bucket' = TRUE
    /\ raw' = NilValue
    /\ last' = ReadCall("init", ZeroFeed, NoStr, NoError, <<>>)
    /\ view' = Views(FALSE)
    /\ UNCHANGED <<defaultFeeds, pc, arg, fresh, feed, existingFeeds, rawFeed,
                   rawRead, nextId, outside, intervening>>

\* NewFeedListStore / init: CreateBucketIfNotExists in a write transaction
\* that commits.
NewFeedListStore ==
    /\ bucket' = TRUE
    /\ last' = ReadCall("init", ZeroFeed, NoStr, NoError, <<>>)
    /\ view' = Views(FALSE)
    /\ UNCHANGED <<defaultFeeds, raw, pc, arg, fresh, feed, existingFeeds, rawFeed, rawRead,
                   nextId, outside, intervening>>

\* The errors NewFeedListStore can return: the one init gives for a failed
\* CreateBucketIfNotExists, and the one db.Update itself returns.
InitErrors == {ErrorInitializingDB, ErrorWrite}

\* NewFeedListStore / init failing: the write transaction is rolled back and
\* the bucket and the value are as they were. With the error of db.Update
\* itself the commit may have failed after it wrote pages that were free;
\* with the error of init the transaction has written nothing.
NewFeedListStoreFails(err) ==
    /\ last' = ReadCall("init", ZeroFeed, NoStr, err, <<>>)
    /\ view' = IF err = ErrorWrite THEN Views(FALSE) ELSE view
    /\ UNCHANGED <<defaultFeeds, bucket, raw, pc, arg, fresh, feed, existingFeeds,
                   rawFeed, rawRead, nextId, outside, intervening>>

\* listStored as far as the return of db.View: the bucket has been looked up
\* and rawFeedList is the slice bucket.Get returned.
View(p, op, a) ==
    /\ pc[p] = "idle"
    /\ pc' = [pc EXCEPT ![p] = "decode"]
    /\ arg' = [arg EXCEPT ![p] = a]
    /\ view' = [view EXCEPT ![p] =
                  [op |-> op, bk |-> bucket, bytes |-> raw, page |-> "live"]]
    /\ UNCHANGED <<bucket, raw, existingFeeds, rawFeed, rawRead, outside, last,
                   defaultFeeds>>

\* ListAll up to the return of db.View in listStored.
ListAllView(p) ==
    /\ View(p, "ListAll", ZeroFeed)
    /\ UNCHANGED <<fresh, feed, nextId, intervening>>

\* GetByID up to the return of db.View in listStored.
GetByIDView(p, id) ==
    /\ View(p, "GetByID", [ZeroFeed EXCEPT !.ID = id])
    /\ UNCHANGED <<fresh, feed, nextId, intervening>>

\* Add up to the return of db.View in listStored: the candidate has its new
\* ID.
AddView(p, candidate) ==
    /\ nextId <= MaxIds
    /\ View(p, "Add", candidate)
    /\ nextId' = nextId + 1
    /\ fresh' = [fresh EXCEPT ![p] = NewString(nextId)]
    /\ feed' = [feed EXCEPT ![p] = AssignID(candidate, NewString(nextId))]
    /\ intervening' = [intervening EXCEPT ![p] = <<>>]

\* What a call returns that ran no write transaction, having decoded the
\* bytes b.
ViewCall(p, b, id, err, out) ==
    [NoCall EXCEPT !.op = view[p].op, !.arg = arg[p], !.id = id, !.err = err,
                   !.out = out, !.fresh = fresh[p],
                   !.bucketBefore = view[p].bk, !.rawRead = view[p].bytes,
                   !.rawBefore = raw, !.rawAfter = raw,
                   !.page = view[p].page, !.slice = b]

\* The call has returned: its locals are gone.
Forget(p) ==
    /\ arg' = [arg EXCEPT ![p] = ZeroFeed]
    /\ fresh' = [fresh EXCEPT ![p] = NoStr]
    /\ feed' = [feed EXCEPT ![p] = ZeroFeed]
    /\ existingFeeds' = [existingFeeds EXCEPT ![p] = <<>>]
    /\ rawFeed' = [rawFeed EXCEPT ![p] = NilValue]
    /\ rawRead' = [rawRead EXCEPT ![p] = NilValue]
    /\ intervening' = [intervening EXCEPT ![p] = <<>>]

\* ListAll from the return of db.View on: the length test, json.Unmarshal of
\* the slice, the merge and the return.
ListAllDecode(p, b) ==
    /\ pc[p] = "decode"
    /\ view[p].op = "ListAll"
    /\ b \in SliceBytes(view[p])
    /\ last' = ViewCall(p, b, NoStr, ListAll(view[p].bk, b).err,
                        ListAll(view[p].bk, b).feeds)
    /\ defaultFeeds' = DefaultsAfterListAll(view[p].bk, b)
    /\ pc' = [pc EXCEPT ![p] = "idle"]
    /\ view' = [view EXCEPT ![p] = NoView]
    /\ Forget(p)
    /\ UNCHANGED <<bucket, raw, nextId, outside>>

\* GetByID from the return of db.View on: the rest of ListAll and the scan.
GetByIDDecode(p, b) ==
    /\ pc[p] = "decode"
    /\ view[p].op = "GetByID"
    /\ b \in SliceBytes(view[p])
    /\ last' = ViewCall(p, b, NoStr, GetByID(view[p].bk, b, arg[p].ID).err,
                        <<GetByID(view[p].bk, b, arg[p].ID).feed>>)
    /\ defaultFeeds' = DefaultsAfterListAll(view[p].bk, b)
    /\ pc' = [pc EXCEPT ![p] = "idle"]
    /\ view' = [view EXCEPT ![p] = NoView]
    /\ Forget(p)
    /\ UNCHANGED <<bucket, raw, nextId, outside>>

\* Add from the return of db.View on, to the end of its two scans and of
\* json.Marshal: it returns here on an error or on an existing URL, and goes
\* on to its write otherwise.
AddDecode(p, b) ==
    LET s == listStored(view[p].bk, b)
        e == ExistingFeed(s.feeds, feed[p])
        returns == s.err # NoError \/ e.found
    IN  /\ pc[p] = "decode"
        /\ view[p].op = "Add"
        /\ b \in SliceBytes(view[p])
        /\ IF returns
           THEN /\ last' = [ViewCall(p, b, IF s.err # NoError THEN NoStr ELSE e.id,
                                     s.err, <<>>)
                            EXCEPT !.existing = s.feeds]
                /\ pc' = [pc EXCEPT ![p] = "idle"]
                /\ view' = [view EXCEPT ![p] = NoView]
                /\ Forget(p)
           ELSE /\ pc' = [pc EXCEPT ![p] = "update"]
                /\ existingFeeds' = [existingFeeds EXCEPT ![p] = s.feeds]
                /\ rawFeed' = [rawFeed EXCEPT ![p] = MarshalAppended(s.feeds, feed[p])]
                /\ rawRead' = [rawRead EXCEPT ![p] = b]
                /\ UNCHANGED <<last, view, arg, fresh, feed, intervening>>
        /\ UNCHANGED <<bucket, raw, nextId, outside, defaultFeeds>>

\* What Add returns after its write transaction.
UpdateCall(p, id, err, wrote, after) ==
    [NoCall EXCEPT !.op = "Add", !.arg = arg[p], !.id = id, !.err = err,
                   !.wrote = wrote, !.update = TRUE, !.fresh = fresh[p],
                   !.existing = existingFeeds[p], !.others = intervening[p],
                   !.bucketBefore = bucket, !.rawRead = view[p].bytes,
                   !.rawBefore = raw, !.rawAfter = after,
                   !.page = view[p].page, !.slice = rawRead[p]]

\* The callers whose Add has run its read transaction and not yet returned.
Adding(q) ==
    \/ pc[q] = "update"
    \/ pc[q] = "decode" /\ view[q].op = "Add"

\* Add's write transaction: the bucket is missing, or the value is replaced.
AddUpdate(p) ==
    /\ pc[p] = "update"
    /\ pc' = [pc EXCEPT ![p] = "idle"]
    /\ IF ~bucket
       THEN /\ last' = UpdateCall(p, NoStr, ErrorUnconfiguredBucket, FALSE, raw)
            /\ UNCHANGED raw
            /\ view' = [view EXCEPT ![p] = NoView]
            /\ intervening' = [intervening EXCEPT ![p] = <<>>]
       ELSE /\ raw' = Put(raw, rawFeed[p])
            /\ last' = UpdateCall(p, feed[p].ID, NoError, TRUE, raw')
            /\ view' = [Views(TRUE) EXCEPT ![p] = NoView]
            /\ intervening' =
                 [q \in Procs |->
                    IF q # p /\ Adding(q)
                    THEN Append(intervening[q], feed[p])
                    ELSE IF q = p THEN <<>> ELSE intervening[q]]
    /\ arg' = [arg EXCEPT ![p] = ZeroFeed]
    /\ fresh' = [fresh EXCEPT ![p] = NoStr]
    /\ feed' = [feed EXCEPT ![p] = ZeroFeed]
    /\ existingFeeds' = [existingFeeds EXCEPT ![p] = <<>>]
    /\ rawFeed' = [rawFeed EXCEPT ![p] = NilValue]
    /\ rawRead' = [rawRead EXCEPT ![p] = NilValue]
    /\ UNCHANGED <<bucket, nextId, outside, defaultFeeds>>

\* Add's write transaction fails in Put or at commit: bolt rolls it back,
\* after it may have written pages that were free.
AddUpdateFails(p) ==
    /\ pc[p] = "update"
    /\ bucket
    /\ pc' = [pc EXCEPT ![p] = "idle"]
    /\ last' = UpdateCall(p, NoStr, ErrorWrite, FALSE, raw)
    /\ view' = [Views(FALSE) EXCEPT ![p] = NoView]
    /\ Forget(p)
    /\ UNCHANGED <<bucket, raw, nextId, outside, defaultFeeds>>

\* The variables of the store and of its callers.
store == <<bucket, raw, pc, arg, fresh, feed, existingFeeds, rawFeed, rawRead,
           nextId, outside, intervening, last, defaultFeeds, view>>

\* A request arrives on a goroutine that serves none: apiMiddleware answers
\* it with 415, or passes it on to apiHandler, which starts to read its body.
Receive(r, contentType, handler) ==
    /\ http[r].phase \in {"none", "done"}
    /\ served < MaxRequests
    /\ served' = served + 1
    /\ http' = [http EXCEPT ![r] =
                  [NoRequest EXCEPT
                     !.phase = IF Passes(contentType) THEN "body" ELSE "done",
                     !.handler = IF Passes(contentType) THEN handler ELSE "none",
                     !.w = apiMiddleware(NoResponse, contentType)]]
    /\ UNCHANGED store

\* ioutil.ReadAll returns: apiHandler writes the error of the read, if any,
\* and calls handler.Handle.
BodyRead(r, readErr) ==
    /\ http[r].phase = "body"
    /\ http' = [http EXCEPT ![r].phase = "handle",
                            ![r].readErr = readErr,
                            ![r].w = ReadBody(@, readErr)]
    /\ UNCHANGED store

\* The requests once handler.Handle of request r has returned (rsp, err)
\* and apiHandler has written the response.
Answered(r, rsp, err) ==
    [http EXCEPT ![r].phase = "done",
                 ![r].rsp = rsp,
                 ![r].err = err,
                 ![r].w = Respond(@, rsp, err)]

\* handler.Handle returns without a call of the store.
HandleReturns(r, result) ==
    /\ http[r].phase = "handle"
    /\ pc[r] = "idle"
    /\ result \in EarlyResults(http[r].handler)
    /\ http' = Answered(r, result[1], result[2])
    /\ UNCHANGED store

\* handler.Handle of request r is running and its handler is this one.
Handling(r, handler) ==
    /\ http[r].phase = "handle"
    /\ http[r].handler = handler

\* The call of the store that handler.Handle of request r made has returned
\* in this step: Handle returns and apiHandler writes the response.
HandleEnds(r) ==
    \E result \in HandlerResults(http[r].handler, last') :
       http' = Answered(r, result[1], result[2])

\* Another writer of the database replaces the value under the key.
ReplaceValue(v) ==
    /\ bucket
    /\ raw # v
    /\ outside < MaxOutside
    /\ outside' = outside + 1
    /\ raw' = v
    /\ view' = Views(TRUE)
    /\ UNCHANGED <<defaultFeeds, bucket, pc, arg, fresh, feed, existingFeeds, rawFeed, rawRead,
                   nextId, intervening, last>>

\* Another writer of the database deletes the bucket, and its key with it.
DeleteBucket ==
    /\ bucket
    /\ outside < MaxOutside
    /\ outside' = outside + 1
    /\ bucket' = FALSE
    /\ raw' = NilValue
    /\ view' = Views(TRUE)
    /\ UNCHANGED <<defaultFeeds, pc, arg, fresh, feed, existingFeeds, rawFeed, rawRead,
                   nextId, intervening, last>>

\* No call is in progress.
Quiet == \A p \in Procs : pc[p] = "idle"

\* The ids Add has returned without error, and among them those of records
\* that a later write has replaced, once this call, of NewFeedListStore,
\* ListAll or Add, has returned.
Registered(r, call) ==
    IF call.op = "Add" /\ call.err = NoError
    THEN [r EXCEPT !.acked = @ \cup {call.id},
                   !.replaced = @ \cup
                         {call.others[i].ID : i \in DOMAIN call.others},
                   !.asked = "none"]
    ELSE [r EXCEPT !.asked = "none"]

\* What had become of the id when a GetByID for it began: no Add had
\* returned it, or one had and a later write has replaced its record, or one
\* had and its record has been kept.
Began(r, id) ==
    IF id \notin r.acked THEN "unknown"
    ELSE IF id \in r.replaced THEN "replaced"
    ELSE "kept"

\* Any interleaving of the callers' steps, on a database nobody else writes:
\* transactions of other callers commit between a caller's db.View and its
\* decoding, and between the two transactions of Add.
Next ==
    \/ /\ NewFeedListStore
       /\ reg' = Registered(reg, last')
       /\ UNCHANGED <<prev, inserted, http, served>>
    \/ \E err \in InitErrors :
          /\ NewFeedListStoreFails(err)
          /\ reg' = Registered(reg, last')
          /\ UNCHANGED <<prev, inserted, http, served>>
    \/ \E p \in Procs : ListAllView(p) /\ UNCHANGED <<prev, inserted, reg, http, served>>
    \/ \E p \in Procs, id \in LookupIDs :
          /\ GetByIDView(p, id)
          /\ reg' = [reg EXCEPT !.began[p] = Began(reg, id)]
          /\ UNCHANGED <<prev, inserted, http, served>>
    \/ \E p \in Procs, c \in RacingCandidates :
          AddView(p, c) /\ UNCHANGED <<prev, inserted, reg, http, served>>
    \/ \E p \in Procs : \E b \in SliceBytes(view[p]) :
          /\ ListAllDecode(p, b)
          /\ reg' = Registered(reg, last')
          /\ UNCHANGED <<prev, inserted, http, served>>
    \/ \E p \in Procs : \E b \in SliceBytes(view[p]) :
          /\ GetByIDDecode(p, b)
          /\ reg' = [reg EXCEPT !.began[p] = "none", !.asked = reg.began[p]]
          /\ UNCHANGED <<prev, inserted, http, served>>
    \/ \E p \in Procs : \E b \in SliceBytes(view[p]) :
          /\ AddDecode(p, b)
          /\ reg' = IF pc'[p] = "idle" THEN Registered(reg, last') ELSE reg
          /\ UNCHANGED <<prev, inserted, http, served>>
    \/ \E p \in Procs :
          /\ AddUpdate(p)
          /\ reg' = Registered(reg, last')
          /\ UNCHANGED <<prev, inserted, http, served>>
    \/ \E p \in Procs :
          /\ AddUpdateFails(p)
          /\ reg' = Registered(reg, last')
          /\ UNCHANGED <<prev, inserted, http, served>>

Spec == Init /\ [][Next]_vars

\* One call at a time, with other writers of the database committing at any
\* moment: between a call's db.View and its decoding, and between the two
\* transactions of Add.
NextEnv ==
    \/ Quiet /\ NewFeedListStore /\ UNCHANGED <<prev, inserted, reg, http, served>>
    \/ \E err \in InitErrors :
          Quiet /\ NewFeedListStoreFails(err) /\ UNCHANGED <<prev, inserted, reg, http, served>>
    \/ \E p \in Procs :
          Quiet /\ ListAllView(p) /\ UNCHANGED <<prev, inserted, reg, http, served>>
    \/ \E p \in Procs, id \in LookupIDs :
          Quiet /\ GetByIDView(p, id) /\ UNCHANGED <<prev, inserted, reg, http, served>>
    \/ \E p \in Procs, c \in Candidates :
          Quiet /\ AddView(p, c) /\ UNCHANGED <<prev, inserted, reg, http, served>>
    \/ \E p \in Procs : \E b \in SliceBytes(view[p]) :
          ListAllDecode(p, b) /\ UNCHANGED <<prev, inserted, reg, http, served>>
    \/ \E p \in Procs : \E b \in SliceBytes(view[p]) :
          GetByIDDecode(p, b) /\ UNCHANGED <<prev, inserted, reg, http, served>>
    \/ \E p \in Procs : \E b \in SliceBytes(view[p]) :
          AddDecode(p, b) /\ UNCHANGED <<prev, inserted, reg, http, served>>
    \/ \E p \in Procs : AddUpdate(p) /\ UNCHANGED <<prev, inserted, reg, http, served>>
    \/ \E p \in Procs : AddUpdateFails(p) /\ UNCHANGED <<prev, inserted, reg, http, served>>
    \/ \E v \in ForeignValues : ReplaceValue(v) /\ UNCHANGED <<prev, inserted, reg, http, served>>
    \/ DeleteBucket /\ UNCHANGED <<prev, inserted, reg, http, served>>

SpecEnv == Init /\ [][NextEnv]_vars

\* One call at a time on a database nobody else writes and on which the
\* write transaction of Add does not fail: no transaction commits between a
\* call's db.View and its decoding.
NextSeq ==
    \/ Quiet /\ NewFeedListStore /\ prev' = last /\ UNCHANGED <<inserted, reg, http, served>>
    \/ \E err \in InitErrors :
          /\ Quiet
          /\ NewFeedListStoreFails(err)
          /\ prev' = last
          /\ UNCHANGED <<inserted, reg, http, served>>
    \/ \E p \in Procs :
          Quiet /\ ListAllView(p) /\ UNCHANGED <<prev, inserted, reg, http, served>>
    \/ \E p \in Procs, id \in LookupIDs :
          Quiet /\ GetByIDView(p, id) /\ UNCHANGED <<prev, inserted, reg, http, served>>
    \/ \E p \in Procs, c \in Candidates :
          Quiet /\ AddView(p, c) /\ UNCHANGED <<prev, inserted, reg, http, served>>
    \/ \E p \in Procs : \E b \in SliceBytes(view[p]) :
          ListAllDecode(p, b) /\ prev' = last /\ UNCHANGED <<inserted, reg, http, served>>
    \/ \E p \in Procs : \E b \in SliceBytes(view[p]) :
          GetByIDDecode(p, b) /\ prev' = last /\ UNCHANGED <<inserted, reg, http, served>>
    \/ \E p \in Procs : \E b \in SliceBytes(view[p]) :
          /\ AddDecode(p, b)
          /\ prev' = IF pc'[p] = "idle" THEN last ELSE prev
          /\ UNCHANGED <<inserted, reg, http, served>>
    \/ \E p \in Procs :
          /\ AddUpdate(p)
          /\ prev' = last
          /\ inserted' = IF last'.wrote THEN Append(inserted, feed[p])
                                        ELSE inserted
          /\ UNCHANGED <<reg, http, served>>

SpecSeq == Init /\ [][NextSeq]_vars

\* Requests served through apiMiddleware and apiHandler, each on its own
\* goroutine: the transactions and the decodings of their handlers' calls of
\* the store interleave, with each other and with NewFeedListStore.
NextHTTP ==
    \/ NewFeedListStore /\ UNCHANGED <<prev, inserted, reg, http, served>>
    \/ \E err \in InitErrors :
          NewFeedListStoreFails(err) /\ UNCHANGED <<prev, inserted, reg, http, served>>
    \/ \E r \in Reqs, contentType \in ContentTypes, handler \in Handlers :
          Receive(r, contentType, handler) /\ UNCHANGED <<prev, inserted, reg>>
    \/ \E r \in Reqs, readErr \in ReadErrors :
          BodyRead(r, readErr) /\ UNCHANGED <<prev, inserted, reg, served>>
    \/ \E r \in Reqs : \E result \in EarlyResults(http[r].handler) :
          HandleReturns(r, result) /\ UNCHANGED <<prev, inserted, reg, served>>
    \/ \E r \in Reqs :
          /\ Handling(r, "GETFeedListHandler")
          /\ ListAllView(r)
          /\ UNCHANGED <<prev, inserted, reg, http, served>>
    \/ \E r \in Reqs, id \in LookupIDs :
          /\ Handling(r, "GETFeedHandler")
          /\ GetByIDView(r, id)
          /\ UNCHANGED <<prev, inserted, reg, http, served>>
    \/ \E r \in Reqs, c \in PostedCandidates :
          /\ Handling(r, "POSTFeedHandler")
          /\ AddView(r, c)
          /\ UNCHANGED <<prev, inserted, reg, http, served>>
    \/ \E r \in Reqs : \E b \in SliceBytes(view[r]) :
          /\ ListAllDecode(r, b)
          /\ HandleEnds(r)
          /\ UNCHANGED <<prev, inserted, reg, served>>
    \/ \E r \in Reqs : \E b \in SliceBytes(view[r]) :
          /\ GetByIDDecode(r, b)
          /\ HandleEnds(r)
          /\ UNCHANGED <<prev, inserted, reg, served>>
    \/ \E r \in Reqs : \E b \in SliceBytes(view[r]) :
          /\ AddDecode(r, b)
          /\ IF pc'[r] = "idle" THEN HandleEnds(r) ELSE UNCHANGED http
          /\ UNCHANGED <<prev, inserted, reg, served>>
    \/ \E r \in Reqs :
          /\ AddUpdate(r)
          /\ HandleEnds(r)
          /\ UNCHANGED <<prev, inserted, reg, served>>
    \/ \E r \in Reqs :
          /\ AddUpdateFails(r)
          /\ HandleEnds(r)
          /\ UNCHANGED <<prev, inserted, reg, served>>

SpecHTTP == Init /\ [][NextHTTP]_vars

-----------------------------------------------------------------------------
(* What the claims speak of *)

\* The Stored List a value holds.
Stored(b) == IF b.kind = "json" THEN b.feeds ELSE <<>>

\* The Default Catalog followed by the Stored List.
Catalog(b) == defaultFeedsList \o Stored(b)

IsPrefix(s, t) == Len(s) <= Len(t) /\ \A i \in DOMAIN s : s[i] = t[i]

\* No two feeds of the list with the same URL carry different IDs.
URLUnique(feeds) ==
    \A i, j \in DOMAIN feeds : feeds[i].URL = feeds[j].URL => feeds[i].ID = feeds[j].ID

IsValidUTF8(str) == \A i \in DOMAIN str : str[i] \notin InvalidBytes

AllValidUTF8(f) ==
    /\ IsValidUTF8(f.Title)
    /\ IsValidUTF8(f.Description)
    /\ IsValidUTF8(f.URL)
    /\ IsValidUTF8(f.ImageURL)
    /\ IsValidUTF8(f.Category)

\* The feeds as they are persisted.
Persisted(feeds) == [i \in DOMAIN feeds |-> ToValidUTF8Feed(feeds[i])]

\* Two records with the same display fields and URL.
SameFields(f, g) ==
    /\ f.Title = g.Title
    /\ f.Description = g.Description
    /\ f.URL = g.URL
    /\ f.ImageURL = g.ImageURL
    /\ f.Category = g.Category

\* The last two calls were Add with the same URL, on a Ready store.
AddedTwice ==
    /\ prev.op = "Add"
    /\ last.op = "Add"
    /\ prev.bucketBefore
    /\ last.arg.URL = prev.arg.URL

-----------------------------------------------------------------------------
(* Claims, one call at a time: SpecSeq *)

\* C1 (idempotent registration): on a Ready, uncorrupted store, two Add calls
\* in a row with the same URL both succeed and return the same id, and the
\* Stored List grows by at most one over the two calls.
C1_IdempotentRegistration ==
    AddedTwice =>
        /\ prev.err = NoError
        /\ last.err = NoError
        /\ last.id = prev.id
        /\ Len(Stored(last.rawAfter)) <= Len(Stored(prev.rawRead)) + 1

\* The same, for URLs that are valid UTF-8 only.
C1_IdempotentForValidUTF8 ==
    (AddedTwice /\ IsValidUTF8(last.arg.URL)) =>
        /\ prev.err = NoError
        /\ last.err = NoError
        /\ last.id = prev.id
        /\ Len(Stored(last.rawAfter)) <= Len(Stored(prev.rawRead)) + 1

\* C2 (uniqueness): after any sequence of Add calls run one at a time from an
\* empty Ready store, no two feeds of the Default Catalog and the Stored List
\* share a URL without sharing their ID, and ListAll returns no URL twice.
C2_URLUniqueness ==
    /\ URLUnique(Catalog(raw))
    /\ (last.op = "ListAll" /\ last.err = NoError) =>
          \A i, j \in DOMAIN last.out :
             last.out[i].URL = last.out[j].URL => i = j

\* C3 (merge order): on a Ready store ListAll succeeds and returns the Default
\* Catalog in its order followed by the feeds appended so far, in the order
\* they were appended, nothing dropped and nothing repeated.
C3_MergeOrder ==
    (last.op = "ListAll" /\ last.bucketBefore) =>
        /\ last.err = NoError
        /\ last.out = defaultFeedsList \o Persisted(inserted)

\* ListAll has returned a list with two appended feeds in it.
C3_Witness ==
    /\ last.op = "ListAll"
    /\ last.bucketBefore
    /\ Len(inserted) = 2
    /\ Len(last.out) = Len(defaultFeedsList) + 2

\* C4 (round trip) as stated: GetByID of the id a successful Add(f) returned
\* yields a record with f's Title, Description, URL, ImageURL and Category
\* and with that id.
C4_RoundTrip ==
    (prev.op = "Add" /\ prev.err = NoError /\ last.op = "GetByID"
       /\ last.arg.ID = prev.id) =>
        /\ last.err = NoError
        /\ SameFields(last.out[1], prev.arg)
        /\ last.out[1].ID = prev.id

\* C4 amended: when Add(f) appended a record, GetByID of the returned id yields
\* f with that id and with every byte that is not valid UTF-8 replaced by
\* U+FFFD; when f's URL existed already, it yields the existing record with
\* that URL.
C4_RoundTripAsPersisted ==
    (prev.op = "Add" /\ prev.err = NoError /\ last.op = "GetByID"
       /\ last.arg.ID = prev.id) =>
        /\ last.err = NoError
        /\ last.out[1].ID = prev.id
        /\ prev.wrote => SameFields(last.out[1], ToValidUTF8Feed(prev.arg))
        /\ (prev.wrote /\ AllValidUTF8(prev.arg)) => SameFields(last.out[1], prev.arg)
        /\ ~prev.wrote => last.out[1].URL = prev.arg.URL

\* Add appended a candidate with bytes that are not valid UTF-8 and GetByID
\* has looked its id up.
C4_Witness ==
    /\ prev.op = "Add"
    /\ prev.wrote
    /\ ~IsValidUTF8(prev.arg.Title)
    /\ last.op = "GetByID"
    /\ last.arg.ID = prev.id
    /\ last.err = NoError

\* C14 (identifier invariant): with Add calls that do not overlap, every
\* feed of the Stored List has a non-empty ID, and no other feed of the
\* Default Catalog or the Stored List has the same ID.
C14_IdentifierInvariant ==
    \A i \in DOMAIN Stored(raw) :
        /\ Stored(raw)[i].ID # NoStr
        /\ \A j \in DOMAIN Catalog(raw) :
              j # Len(defaultFeedsList) + i =>
                  Catalog(raw)[j].ID # Stored(raw)[i].ID

\* The Stored List holds two feeds, the second one added from a candidate
\* that came with the ID of a default feed.
C14_Witness ==
    /\ Len(Stored(raw)) = 2
    /\ last.op = "Add"
    /\ last.wrote
    /\ last.arg.ID = defaultFeedsList[1].ID

-----------------------------------------------------------------------------
(* Claims, with outside writers: SpecEnv *)

StoreCalls == {"ListAll", "GetByID", "Add"}

\* The call returned the corrupted-store error and nothing else.
FailedCorrupted ==
    /\ last.err = ErrorStoreFeedListCorrupted
    /\ last.id = NoStr
    /\ last.out \in {<<>>, <<ZeroFeed>>}
    /\ ~last.update
    /\ last.rawAfter = last.rawBefore

\* C5 (corruption isolation) as stated: when the value under the key is bytes
\* that do not deserialize into a sequence of Feed, ListAll, Add and GetByID
\* all fail with the corrupted-store error, whatever their argument.
C5_CorruptionIsolation ==
    (last.op \in StoreCalls /\ last.rawRead.kind # "nil"
       /\ Unmarshal(last.rawRead).failed) => FailedCorrupted

\* C5 amended: the same for a value of at least one byte; a value of zero
\* bytes is read as an empty Stored List, without error.
C5_CorruptionIsolationNonEmpty ==
    /\ (last.op \in StoreCalls /\ ~IsZeroLen(last.rawRead)
          /\ Unmarshal(last.rawRead).failed) => FailedCorrupted
    /\ (last.op \in StoreCalls /\ last.bucketBefore /\ ~last.update
          /\ last.rawRead = EmptyValue) => last.err \in {NoError, ErrorFeedNotFound}

\* Add of a default feed's URL has run on a corrupted store.
C5_Witness ==
    /\ last.op = "Add"
    /\ last.rawRead = GarbageValue
    /\ last.arg.URL = defaultFeedsList[1].URL

\* C6 (uninitialized): a call of ListAll, GetByID or Add whose transaction
\* finds the bucket absent fails with the unconfigured-bucket error, returns
\* no id and no feeds, and writes nothing.
C6_Uninitialized ==
    (last.op \in StoreCalls /\ ~last.bucketBefore) =>
        /\ last.err = ErrorUnconfiguredBucket
        /\ last.id = NoStr
        /\ last.out \in {<<>>, <<ZeroFeed>>}
        /\ ~last.wrote
        /\ last.rawAfter = last.rawBefore

\* Add has found the bucket absent in its write transaction.
C6_Witness ==
    /\ last.op = "Add"
    /\ last.update
    /\ ~last.bucketBefore

\* The candidate's URL is the URL of a feed of the Default Catalog or of the
\* Stored List, the value being the bytes Add's listStored came to decode.
URLExists ==
    \E i \in DOMAIN Catalog(last.slice) :
       Catalog(last.slice)[i].URL = last.arg.URL

\* Add returned the id of a feed with the candidate's URL and wrote nothing.
ReturnedExisting ==
    /\ last.err = NoError
    /\ \E i \in DOMAIN Catalog(last.slice) :
          /\ Catalog(last.slice)[i].URL = last.arg.URL
          /\ Catalog(last.slice)[i].ID = last.id
    /\ last.id # last.fresh
    /\ ~last.update
    /\ ~last.wrote
    /\ last.rawAfter = last.rawBefore

\* C10 (duplicate URL performs no write) as stated: whenever the candidate's
\* URL is that of a feed of the Default Catalog or the Stored List, Add
\* returns that feed's id, starts no write transaction and leaves the value.
C10_DuplicateNoWrite ==
    (last.op = "Add" /\ URLExists) => ReturnedExisting

\* C10 amended: the same whenever Add's read succeeds, the bucket existing
\* and the bytes listStored decodes being absent, empty or a list of feeds;
\* otherwise Add fails before it compares any URL.
C10_DuplicateNoWriteWhenReadable ==
    /\ (last.op = "Add" /\ URLExists /\ last.bucketBefore
          /\ (IsZeroLen(last.slice) \/ ~Unmarshal(last.slice).failed))
         => ReturnedExisting
    /\ (last.op = "Add" /\ URLExists /\ ~ReturnedExisting)
         => last.err \in {ErrorUnconfiguredBucket, ErrorStoreFeedListCorrupted}

\* Add has returned the id of a stored feed for a candidate whose other
\* fields differ from that feed's.
C10_Witness ==
    /\ last.op = "Add"
    /\ ReturnedExisting
    /\ \E i \in DOMAIN Stored(last.slice) :
          /\ Stored(last.slice)[i].ID = last.id
          /\ Stored(last.slice)[i].URL = last.arg.URL
          /\ Stored(last.slice)[i].Title # last.arg.Title

\* The value is absent, empty or deserializes into a sequence of Feed.
Readable(b) == IsZeroLen(b) \/ ~Unmarshal(b).failed

\* The places of the catalog GetByID scanned that hold the ID it was given.
Hits == {i \in DOMAIN Catalog(last.rawRead) :
            Catalog(last.rawRead)[i].ID = last.arg.ID}

\* C11 (lookup): on a Ready store whose value is readable, and is not
\* replaced while the call reads it, GetByID returns the first feed, in the
\* order defaults then stored, whose ID is the one asked for, and fails with
\* the not-found error exactly when no feed of that order has the ID.
C11_Lookup ==
    (last.op = "GetByID" /\ last.bucketBefore /\ Readable(last.rawRead)
       /\ last.page = "live") =>
        /\ Hits # {} =>
              /\ last.err = NoError
              /\ \E i \in Hits :
                    /\ \A j \in Hits : i <= j
                    /\ last.out = <<Catalog(last.rawRead)[i]>>
        /\ Hits = {} <=> last.err = ErrorFeedNotFound
        /\ Hits = {} => last.out = <<ZeroFeed>>

\* GetByID has been asked for an ID that a default feed and a stored feed
\* both carry.
C11_Witness ==
    /\ last.op = "GetByID"
    /\ last.err = NoError
    /\ last.page = "live"
    /\ Cardinality(Hits) = 2

\* C12 (empty store): on a Ready store with no value under the key,
\* listStored returns an empty sequence and no error, and ListAll returns
\* the Default Catalog, its 4 entries in order, and no error.
C12_EmptyStore ==
    /\ (bucket /\ raw = NilValue) =>
          /\ listStored(bucket, raw).err = NoError
          /\ listStored(bucket, raw).feeds = <<>>
    /\ (last.op = "ListAll" /\ last.bucketBefore /\ last.rawRead = NilValue) =>
          /\ last.err = NoError
          /\ last.out = defaultFeedsList
          /\ Len(last.out) = 4

\* ListAll has run on a Ready store with no value under the key.
C12_Witness ==
    /\ last.op = "ListAll"
    /\ last.bucketBefore
    /\ last.rawRead = NilValue
    /\ bucket /\ raw = NilValue

\* C15 (Ready is stable): no step of the store (Add, ListAll, GetByID,
\* NewFeedListStore) taken while the bucket exists removes the bucket, and
\* NewFeedListStore on an existing bucket leaves the persisted value as it is.
C15_ReadyIsStable ==
    [][/\ (bucket /\ outside' = outside) => bucket'
       /\ (bucket /\ last'.op = "init" /\ last' # last) => raw' = raw]_vars

\* NewFeedListStore has run again on a bucket that holds a Stored List.
C15_Witness ==
    /\ last.op = "init"
    /\ last.bucketBefore
    /\ bucket
    /\ Stored(last.rawRead) # <<>>
    /\ raw = last.rawRead

\* A step of ListAll, of GetByID or of the listStored of Add: the read
\* transaction, or the decoding of what it read and what follows it up to
\* the return or, in Add, up to the write transaction.
ReadStep ==
    \E p \in Procs :
       \/ pc[p] = "idle" /\ pc'[p] = "decode"
       \/ pc[p] = "decode" /\ pc'[p] # "decode"

\* C17 (reads change nothing): a step of ListAll, GetByID or listStored,
\* whether it fails or not, leaves the persisted value, the existence of the
\* bucket and the Default Catalog as they are, and the Default Catalog
\* always is its original 4 entries.
C17_ReadsChangeNothing ==
    [][/\ ReadStep => UNCHANGED <<bucket, raw, defaultFeeds>>
       /\ defaultFeeds' = defaultFeedsList
       /\ Len(defaultFeeds') = 4]_vars

\* ListAll has returned the default feeds followed by stored ones.
C17_Witness ==
    /\ last.op = "ListAll"
    /\ last.err = NoError
    /\ Len(last.out) > Len(defaultFeedsList)
    /\ raw = last.rawRead
    /\ defaultFeeds = defaultFeedsList

\* An Add that returned an error wrote nothing, and an Add whose read
\* transaction saw a value it could not decode started no write.
FailedAddLeavesValue ==
    /\ (last.op = "Add" /\ last.err # NoError) =>
          /\ ~last.wrote
          /\ last.id = NoStr
          /\ last.rawAfter = last.rawBefore
    /\ (last.op = "Add" /\ last.bucketBefore /\ ~Readable(last.rawRead)) =>
          /\ last.err = ErrorStoreFeedListCorrupted
          /\ ~last.update
          /\ last.rawAfter = last.rawBefore

\* C13, the part on failing Add calls, with outside writers (SpecEnv): an
\* Add that returns an error leaves the value as it was, and a value Add
\* cannot decode is left as it is.
C13_FailedAddLeavesValue == FailedAddLeavesValue

-----------------------------------------------------------------------------
(* Claims, with concurrent callers: Spec *)

\* C13 (no partial writes, no repair on failure): an Add that returns an
\* error leaves the persisted value as it was, a corrupted value is not
\* rewritten, and a reader of a store whose value deserializes, before and
\* after, gets the whole list persisted when it read or the whole list
\* persisted when it returns.
C13_NoPartialWrites ==
    /\ FailedAddLeavesValue
    /\ (last.op = "ListAll" /\ last.bucketBefore
          /\ Readable(last.rawRead) /\ Readable(last.rawAfter)) =>
          /\ last.err = NoError
          /\ last.out \in {Catalog(last.rawRead), Catalog(last.rawAfter)}

\* Add has written, and between its read and its write another Add wrote a
\* record for the same URL: both read before either wrote, both succeeded.
RaceCompleted ==
    /\ last.op = "Add"
    /\ last.wrote
    /\ \E i \in DOMAIN last.others : last.others[i].URL = last.arg.URL

\* The value Add wrote holds a record with the id this call returned and a
\* record with the id the other call returned, both with the URL of the race.
BothRecorded ==
    \E i \in DOMAIN last.others :
       /\ last.others[i].URL = last.arg.URL
       /\ \E j, k \in DOMAIN Stored(last.rawAfter) :
             /\ Stored(last.rawAfter)[j].ID = last.others[i].ID
             /\ Stored(last.rawAfter)[k].ID = last.id
             /\ Stored(last.rawAfter)[j].URL = Stored(last.rawAfter)[k].URL

\* C7 (documented race): two overlapping Add calls for the same new URL that
\* both read before either writes both succeed with different ids, and both
\* their records are in the catalog afterwards, two feeds sharing that URL.
C7_DocumentedRace ==
    RaceCompleted =>
        /\ last.err = NoError
        /\ \A i \in DOMAIN last.others : last.others[i].ID # last.id
        /\ BothRecorded

\* What every such race leaves instead: both calls succeed with different
\* ids, and the second write replaces the first, the value holding the list
\* the second call read plus its own record and no record with the id the
\* first call returned.
C7_RaceLosesFirstRecord ==
    RaceCompleted =>
        /\ last.err = NoError
        /\ last.id = last.fresh
        /\ ~BothRecorded
        /\ Stored(last.rawAfter) = Persisted(Append(last.existing,
                                              AssignID(last.arg, last.fresh)))
        /\ \A i \in DOMAIN last.others :
              /\ last.others[i].ID # last.id
              /\ \A j \in DOMAIN Stored(last.rawAfter) :
                    Stored(last.rawAfter)[j].ID # last.others[i].ID

\* The race has run to its end for a URL that is valid UTF-8: both calls
\* read before either wrote, both returned an id, one record is stored.
C7_Witness ==
    /\ RaceCompleted
    /\ last.err = NoError
    /\ IsValidUTF8(last.arg.URL)
    /\ Len(Stored(last.rawAfter)) = 1

\* The value Add wrote is the value it replaced with one record appended.
AppendedOne ==
    /\ IsPrefix(Stored(last.rawBefore), Stored(last.rawAfter))
    /\ Len(Stored(last.rawAfter)) = Len(Stored(last.rawBefore)) + 1

\* C8 (append-only growth): in every interleaving, every write of the
\* Stored List has the list persisted before it as a prefix and is one
\* element longer.
C8_AppendOnly ==
    (last.op = "Add" /\ last.wrote) => AppendedOne

\* What every write of Add does: it replaces the value by the list the call
\* read plus its own record, which is the list persisted before it plus one
\* record when no other write came between the call's read and its write.
C8_WritesListRead ==
    (last.op = "Add" /\ last.wrote) =>
        /\ last.others = <<>> => AppendedOne
        /\ IsPrefix(Stored(last.rawRead), Stored(last.rawAfter))
        /\ Len(Stored(last.rawAfter)) = Len(Stored(last.rawRead)) + 1

\* Add has written over a list that another call's write had made longer
\* than the list it read.
C8_Witness ==
    /\ last.op = "Add"
    /\ last.wrote
    /\ last.others # <<>>
    /\ Len(Stored(last.rawBefore)) > Len(Stored(last.rawRead))

\* C9 (store-assigned identifiers): when Add appends a candidate, the record
\* appended and the id returned carry the identifier generated for this
\* call, not the ID the caller supplied.
C9_StoreAssignedID ==
    (last.op = "Add" /\ last.wrote) =>
        /\ last.id = last.fresh
        /\ last.id # last.arg.ID
        /\ Stored(last.rawAfter)[Len(Stored(last.rawAfter))].ID = last.fresh
        /\ \A i \in DOMAIN Catalog(last.rawRead) :
              Catalog(last.rawRead)[i].ID # last.fresh

\* Add has appended a candidate that came with an ID of the caller's.
C9_Witness ==
    /\ last.op = "Add"
    /\ last.wrote
    /\ last.arg.ID # NoStr
    /\ last.id = last.fresh

\* The GetByID that returned last began after an Add had returned the id it
\* asked for, found the store Ready and its value readable, and returned a
\* feed with that id.
Resolves(fates) ==
    (last.op = "GetByID" /\ reg.asked \in fates
       /\ last.bucketBefore /\ Readable(last.rawRead)) =>
        /\ last.err = NoError
        /\ last.out[1].ID = last.arg.ID

\* C16 (durability of a registration) as stated: in every interleaving of
\* the transactions of Add calls, every GetByID that begins after an Add has
\* returned an id without error succeeds and returns a feed with that id.
C16_Durability == Resolves({"kept", "replaced"})

\* C16 for the ids whose record was not written between the read and the
\* write of another Add that wrote, and the GetByID calls during whose read
\* the value is not replaced: these succeed.
C16_DurabilityWithoutOverlap ==
    last.page = "live" => Resolves({"kept"})

-----------------------------------------------------------------------------
(* Claims on the HTTP boundary: SpecHTTP *)

\* The requests whose handler returned an error.
Failed == {r \in Reqs : http[r].err # NoHandlerError}

\* The response has the status of the error's kind, not a success status,
\* and the error's message as its body.
MappedError(r) ==
    /\ http[r].err.type = "NotFoundError" => http[r].w.status = StatusNotFound
    /\ http[r].err \in StoreErrors =>
          http[r].w.status = StatusInternalServerError
    /\ http[r].w.status >= StatusBadRequest
    /\ http[r].w.written = <<jsonError(http[r].err)>>

\* C18 (HTTP error mapping): for every error a handler returns to
\* apiHandler the response has status 404 for a not-found error and 500
\* for an unconfigured-bucket, corrupted-store or initialization error,
\* never a success status, and the body {"error": "<message>"}.
C18_ErrorMapping == \A r \in Failed : MappedError(r)

\* C18 for the requests whose body was read without error.
C18_ErrorMappingWhenBodyRead ==
    \A r \in Failed : http[r].readErr = NoHandlerError => MappedError(r)

\* One document was written, and the handler did not run after a write.
OneResponse(r) ==
    /\ Len(http[r].w.written) = 1
    /\ ~http[r].w.invokedAfterWrite

\* The requests that reached apiHandler and have been answered.
Handled == {r \in Reqs : http[r].w.invoked /\ http[r].phase = "done"}

\* C19 (one response per request): along every path of apiHandler exactly
\* one document is written to the response and, once an error body has
\* been written, the wrapped handler is not invoked and nothing more is
\* written.
C19_OneResponse == \A r \in Handled : OneResponse(r)

\* C19 for the requests whose body was read without error.
C19_OneResponseWhenBodyRead ==
    \A r \in Handled : http[r].readErr = NoHandlerError => OneResponse(r)

=============================================================================
